---- MODULE Spec2Model ----
(***************************************************************************)
(* simge: a shape-level simulator of tensor programs on a host (DRAM) with *)
(* accelerators (one SRAM per region), with a pluggable eviction           *)
(* heuristic (src/src/sim.rs, memory.rs, heuristics.rs), and the lowering  *)
(* of a Glenside term into the simulator's Operators (from_glenside.rs).   *)
(*                                                                         *)
(* The simulator's whole state (memories, heuristic, the position of run   *)
(* in the Operators tree) is one record, sim; twin is a second simulator   *)
(* used to compare two runs of the same input.  low is the state of a      *)
(* lowering, and hist remembers the step before the last one.              *)
(***************************************************************************)
EXTENDS Integers, Sequences, FiniteSets, TLC

VARIABLES sim, twin, low, hist

vars == <<sim, twin, low, hist>>

(***************************************************************************)
(* Bounds of the model                                                     *)
(***************************************************************************)
\* direct calls a client makes on the memories / the DTR interface
MaxCalls == 3
\* tensor ids a client uses in direct calls: 1..NumIds
NumIds == 2
\* largest size a client passes to put / allocate_buffer
MaxSize == 2
\* touches of one run whose Instant collides with the previous one
MaxTies == 1
\* calls of compile_instruction a client makes on one memo
MaxLower == 3

\* Option<Id>::None
None == 0

Regions == {"A", "B"}

Max(a, b) == IF a >= b THEN a ELSE b

(***************************************************************************)
(* BTreeMap<Id, usize> as a function on the set of its keys                *)
(***************************************************************************)
EmptyMap == [x \in {} |-> 0]

MapInsert(m, k, v) == [x \in (DOMAIN m) \cup {k} |-> IF x = k THEN v ELSE m[x]]

MapRemove(m, k) == [x \in (DOMAIN m) \ {k} |-> m[x]]

RECURSIVE SumOver(_, _)
SumOver(m, keys) ==
    IF keys = {} THEN 0
    ELSE LET k == CHOOSE x \in keys : TRUE
         IN  m[k] + SumOver(m, keys \ {k})

\* the sum of the values of a map
MapSum(m) == SumOver(m, DOMAIN m)

(***************************************************************************)
(* Memory tier: SRAM and DRAM (memory.rs)                                  *)
(***************************************************************************)
SRAM_new(sram_size) ==
    [residence |-> EmptyMap, evict |-> {}, resident_size |-> 0,
     mem_limit |-> sram_size, trip_count |-> 0]

DRAM_new == [residence |-> EmptyMap]

contains(m, data) == data \in DOMAIN m.residence

size_allocated(m) == m.resident_size

size_total(m) == m.mem_limit

to_vec(m) == DOMAIN m.residence

\* SRAM::put: "" when the call returns, else the panic it ends in
put_panic(m, id, size) ==
    IF size + m.resident_size <= m.mem_limit
    THEN IF id \in DOMAIN m.residence THEN "assert: put of a resident id" ELSE ""
    ELSE "OOM on SRAM"

put_skips_size(m, id, size, from_self) ==
    [m EXCEPT !.trip_count = IF from_self THEN @ ELSE @ + 1,
              !.residence = MapInsert(@, id, size)]

put_counts_self(m, id, size, from_self) ==
    [m EXCEPT !.resident_size = @ + size,
              !.trip_count = @ + 1,
              !.residence = MapInsert(@, id, size)]

\* SRAM::put when it returns
put(m, id, size, from_self) ==
    [m EXCEPT !.resident_size = @ + size,
              !.trip_count = IF from_self THEN @ ELSE @ + 1,
              !.residence = MapInsert(@, id, size)]

\* DRAM::put
dram_put(d, data, size) == [d EXCEPT !.residence = MapInsert(@, data, size)]

\* DRAM::get / SRAM::get: "" when the call returns, else the panic
get_panic(m, data) ==
    IF data \in DOMAIN m.residence THEN "" ELSE "get: no resident has id"

get(m, data) == m.residence[data]

\* SRAM::store: "" when the call returns, else the panic
store_panic(m, id) ==
    IF id \in DOMAIN m.residence THEN "" ELSE "Evicting non-residence"

store_sram_no_trip_unless_evict(m, id, evict) ==
    IF evict
    THEN [m EXCEPT !.residence = MapRemove(@, id),
                   !.evict = @ \cup {id},
                   !.resident_size = @ - m.residence[id],
                   !.trip_count = @ + 1]
    ELSE m

\* SRAM::store, the SRAM after it
store_sram(m, id, evict) ==
    IF evict
    THEN [m EXCEPT !.residence = MapRemove(@, id),
                   !.evict = @ \cup {id},
                   !.resident_size = @ - m.residence[id],
                   !.trip_count = @ + 1]
    ELSE [m EXCEPT !.trip_count = @ + 1]

store_dram_skips(m, id, d) == d

store_dram_empties(m, id, d) == DRAM_new

\* SRAM::store, the DRAM after it
store_dram(m, id, d) == dram_put(d, id, m.residence[id])

\* SRAM::reset
reset(m) == [m EXCEPT !.residence = EmptyMap, !.evict = {}, !.resident_size = 0]

\* SRAM::deallocate: "" when the call returns, else the panic
deallocate_panic(m, data) ==
    IF data \in DOMAIN m.residence THEN "" ELSE "assert: deallocate of a non-resident id"

deallocate_keeps(m, data) == m

\* SRAM::deallocate when it returns
deallocate(m, data) ==
    [m EXCEPT !.resident_size = @ - m.residence[data],
              !.residence = MapRemove(@, data)]

(***************************************************************************)
(* Eviction heuristics (heuristics.rs)                                     *)
(*                                                                         *)
(* LRU.member is a BinaryHeap of DataPair(Instant, D); an entry is         *)
(* [t |-> the Instant of the touch, d |-> the id].  DataPair orders by     *)
(* Instant::elapsed(), read anew in every comparison, so the heap's top is *)
(* an entry with the oldest Instant, and which one of several entries      *)
(* whose Instants collide depends on the clock.                            *)
(***************************************************************************)
RandomEviction_new == [kind |-> "Random", member |-> {}]

LRU_new == [kind |-> "LRU", member |-> {}]

Oldest(entries) == {e \in entries : \A f \in entries : e.t <= f.t}

choose_ignores_exclude(h, sram, exclude) ==
    IF h.kind = "Random"
    THEN IF to_vec(sram) # {} THEN to_vec(sram) ELSE {None}
    ELSE IF h.member = {} THEN {None} ELSE {e.d : e \in Oldest(h.member)}

\* Heuristic::choose: the set of the values the call can return
choose(h, sram, exclude) ==
    IF h.kind = "Random"
    THEN LET allowed == {x \in to_vec(sram) : x \notin exclude}
         IN  IF allowed # {} THEN allowed ELSE {None}
    ELSE LET x == {e \in h.member : e.d \notin exclude}
         IN  IF x = {} THEN {None} ELSE {e.d : e \in Oldest(x)}

\* Heuristic::evict
evict(h, data) ==
    IF h.kind = "Random" THEN h
    ELSE [h EXCEPT !.member = {e \in @ : e.d # data}]

touch_never(h, data, now) == h

touch_keeps_old(h, data, now) ==
    IF h.kind = "Random" THEN h
    ELSE [h EXCEPT !.member = @ \cup {[t |-> now, d |-> data]}]

\* Heuristic::touch, now the value of Instant::now()
touch(h, data, now) ==
    IF h.kind = "Random" THEN h
    ELSE [h EXCEPT !.member = evict(h, data).member \cup {[t |-> now, d |-> data]}]

(***************************************************************************)
(* Operators (sim.rs 79-94): every variant as a record of one shape.       *)
(* args[j] and subs[j] are the pair (D, Operators<D>) at place j.          *)
(***************************************************************************)
NoOp ==
    [t |-> "NoOp", region |-> "", op |-> None, id |-> None, evict |-> FALSE,
     args |-> <<>>, subs |-> <<>>, size |-> 0]

Compute(region, op, dst, args, subs, size) ==
    [t |-> "Compute", region |-> region, op |-> op, id |-> dst, evict |-> FALSE,
     args |-> args, subs |-> subs, size |-> size]

Load(region, data, sub, size) ==
    [t |-> "Load", region |-> region, op |-> None, id |-> data, evict |-> FALSE,
     args |-> <<data>>, subs |-> <<sub>>, size |-> size]

Store(region, ev, data, sub, size) ==
    [t |-> "Store", region |-> region, op |-> None, id |-> data, evict |-> ev,
     args |-> <<data>>, subs |-> <<sub>>, size |-> size]

Range(f) == {f[j] : j \in DOMAIN f}

(***************************************************************************)
(* The simulator's state                                                   *)
(*   srams, dram, heuristic : the memories and JitSim.heuristic            *)
(*   now, ties      : the last value of Instant::now(), and how often a    *)
(*                    touch read the same Instant as the touch before it   *)
(*   stack          : the activations of run, the innermost last; i is the *)
(*                    next sub-operation of ops to run                     *)
(*   pc             : the place inside perform_op / rematerialize /        *)
(*                    allocate_buffer                                      *)
(*   status, panic  : "running", "done", or "panic" with its message       *)
(*   ev, evlog      : the memory operation of the last step, and the       *)
(*                    victims evict_single removed so far                  *)
(***************************************************************************)
PcAt(phase) ==
    [phase |-> phase, region |-> "", k |-> 0, data |-> None, size |-> 0,
     exclude |-> {}, ret |-> ""]

NoEvent ==
    [by |-> "", op |-> "", region |-> "", id |-> None, size |-> 0,
     flag |-> FALSE, exclude |-> {}]

Event(by, op, region, id, size, flag, exclude) ==
    [by |-> by, op |-> op, region |-> region, id |-> id, size |-> size,
     flag |-> flag, exclude |-> exclude]

Heuristic_new(kind) == IF kind = "LRU" THEN LRU_new ELSE RandomEviction_new

\* JitSim::new, SRAM::new, DRAM::new and the call of run on p.ops
SimInit(p, kind) ==
    [name |-> p.name,
     mode |-> IF p.name = "api" THEN "api" ELSE "run",
     srams |-> [r \in Regions |-> SRAM_new(p.caps[r])],
     dram |-> DRAM_new,
     heuristic |-> Heuristic_new(kind),
     now |-> 0, ties |-> 0,
     stack |-> IF p.name = "api" THEN <<>>
               ELSE <<[ops |-> p.ops, pin |-> {}, i |-> 1]>>,
     pc |-> IF p.name = "api" THEN PcAt("idle") ELSE PcAt("run"),
     status |-> "running", panic |-> "",
     ev |-> NoEvent, evlog |-> <<>>, calls |-> 0]

Top(s) == s.stack[Len(s.stack)]

\* panic!: the process ends
Panicked(s, msg, e) == [s EXCEPT !.status = "panic", !.panic = msg, !.ev = e]

\* the return of perform_op and then of run to its caller
Return(s) ==
    IF s.mode = "api" THEN [s EXCEPT !.pc = PcAt("idle")]
    ELSE LET rest == SubSeq(s.stack, 1, Len(s.stack) - 1)
         IN  [s EXCEPT !.stack = rest, !.pc = PcAt("run"),
                       !.status = IF rest = <<>> THEN "done" ELSE "running"]

\* the values Instant::now() can return at the next touch
Ticks(s) ==
    IF s.heuristic.kind = "LRU"
    THEN {s.now + 1} \cup
         (IF s.ties < MaxTies /\ s.heuristic.member # {} THEN {s.now} ELSE {})
    ELSE {s.now}

\* self.heuristic.touch(data, _) at Instant now
Touched(s, data, now) ==
    [s EXCEPT !.heuristic = touch(@, data, now),
              !.ties = IF s.heuristic.kind = "LRU" /\ now = s.now THEN @ + 1 ELSE @,
              !.now = now]

NeedsRoom(s) ==
    size_allocated(s.srams[s.pc.region]) + s.pc.size > size_total(s.srams[s.pc.region])

(***************************************************************************)
(* JitSim::run (sim.rs 127-153)                                            *)
(***************************************************************************)
AtRun(s) ==
    /\ s.status = "running" /\ s.mode = "run"
    /\ s.pc.phase = "run" /\ s.stack # <<>>

\* the pin run hands to the run of a sub-operation
ChildPin(f) == IF f.ops.t = "Compute" THEN Range(f.ops.args) ELSE f.pin

\* the exclude run hands to perform_op: &HashSet::default()
PerformExclude(f) == {}

\* Operators::NoOp => {}
RunNoOp(s, t) ==
    /\ AtRun(s) /\ Top(s).ops.t = "NoOp"
    /\ t = Return([s EXCEPT !.ev = NoEvent])

\* self.run(sub-operation, srams, dram, pin)
RunSubop(s, t) ==
    /\ AtRun(s) /\ Top(s).ops.t # "NoOp"
    /\ Top(s).i <= Len(Top(s).ops.subs)
    /\ LET f == Top(s)
           n == Len(s.stack)
       IN  t = [s EXCEPT !.stack = Append([@ EXCEPT ![n].i = @ + 1],
                                          [ops |-> f.ops.subs[f.i],
                                           pin |-> ChildPin(f), i |-> 1]),
                         !.ev = NoEvent]

Ready_early(s, variant) == AtRun(s) /\ Top(s).ops.t = variant

\* the sub-operations of the innermost run have returned: perform_op is next
Ready(s, variant) ==
    /\ AtRun(s) /\ Top(s).ops.t = variant
    /\ Top(s).i > Len(Top(s).ops.subs)

(***************************************************************************)
(* DTR for JitSim (sim.rs 162-258) and Instruction::run (sim.rs 271-318)   *)
(***************************************************************************)
\* allocate_buffer(size, mem, dram, exclude) is entered; ret names its caller
Allocating(s, region, size, exclude, data, k, ret) ==
    [s EXCEPT !.pc = [phase |-> "alloc", region |-> region, k |-> k, data |-> data,
                      size |-> size, exclude |-> exclude, ret |-> ret],
              !.ev = NoEvent]

\* the caller of rematerialize goes on: the next argument of the Compute, or
\* the client
Rematerialized(s) ==
    IF s.mode = "api" THEN [s EXCEPT !.pc = PcAt("idle")]
    ELSE [s EXCEPT !.pc = [phase |-> "args", region |-> s.pc.region, k |-> s.pc.k + 1,
                           data |-> None, size |-> 0, exclude |-> s.pc.exclude,
                           ret |-> ""]]

\* rematerialize(data, sram, dram, evict_exclude), up to its allocate_buffer
rematerialize(s, t, region, data, exclude, k) ==
    IF ~contains(s.srams[region], data)
    THEN IF get_panic(s.dram, data) # ""
         THEN t = Panicked(s, get_panic(s.dram, data),
                           Event("rematerialize", "", region, data, 0, FALSE, exclude))
         ELSE t = Allocating(s, region, get(s.dram, data), exclude, data, k, "remat")
    ELSE \E now \in Ticks(s) :
            t = Rematerialized(
                  [Touched(s, data, now) EXCEPT
                     !.pc = [s.pc EXCEPT !.region = region, !.k = k, !.exclude = exclude],
                     !.ev = Event("rematerialize", "", region, data, 0, FALSE, exclude)])

\* rematerialize after its allocate_buffer: sram.put(data, size, false), touch
RematPut(s, t) ==
    /\ s.status = "running" /\ s.pc.phase = "alloc" /\ s.pc.ret = "remat"
    /\ ~NeedsRoom(s)
    /\ LET r == s.pc.region
           mem == s.srams[r]
           e == Event("rematerialize", "put", r, s.pc.data, s.pc.size, FALSE, s.pc.exclude)
       IN  IF put_panic(mem, s.pc.data, s.pc.size) # ""
           THEN t = Panicked(s, put_panic(mem, s.pc.data, s.pc.size), e)
           ELSE \E now \in Ticks(s) :
                   t = Rematerialized(
                         [Touched(s, s.pc.data, now) EXCEPT
                            !.srams[r] = put(mem, s.pc.data, s.pc.size, FALSE),
                            !.ev = e])

EvictLock_empty(ops) == {}

\* perform_op, Compute: evict_lock, the ids of the arguments
EvictLock(ops) == Range(ops.args)

\* perform_op, Compute on "host": op.run(None, dram)
PerformHostCompute(s, t) ==
    /\ Ready(s, "Compute") /\ Top(s).ops.region = "host"
    /\ LET ops == Top(s).ops
           e == Event("perform_op", "dram_put", "host", ops.id, ops.size, TRUE, {})
       IN  IF ops.args = <<>>
           THEN t = Panicked(s, "index out of bounds", e)
           ELSE IF ~(\A x \in Range(ops.args) : contains(s.dram, x))
           THEN t = Panicked(s, "assert: argument not in DRAM", e)
           ELSE t = Return([s EXCEPT !.dram = dram_put(@, ops.id, ops.size), !.ev = e])

\* perform_op, Compute on an accelerator: the loop over the arguments begins
PerformCompute(s, t) ==
    /\ Ready(s, "Compute") /\ Top(s).ops.region # "host"
    /\ t = [s EXCEPT !.pc = [phase |-> "args", region |-> Top(s).ops.region, k |-> 1,
                             data |-> None, size |-> 0,
                             exclude |-> EvictLock(Top(s).ops), ret |-> ""],
                     !.ev = NoEvent]

\* one argument of the Compute: rematerialize it, or touch it
ComputeArg(s, t) ==
    /\ s.status = "running" /\ s.pc.phase = "args"
    /\ s.pc.k <= Len(Top(s).ops.args)
    /\ LET r == s.pc.region
           arg == Top(s).ops.args[s.pc.k]
       IN  IF ~contains(s.srams[r], arg)
           THEN rematerialize(s, t, r, arg, s.pc.exclude, s.pc.k)
           ELSE \E now \in Ticks(s) :
                   t = [Touched(s, arg, now) EXCEPT
                          !.pc.k = @ + 1,
                          !.ev = Event("perform_op", "", r, arg, 0, FALSE, s.pc.exclude)]

\* after the arguments: allocate_buffer(size, mem, dram, &evict_lock)
ComputeAllocate(s, t) ==
    /\ s.status = "running" /\ s.pc.phase = "args"
    /\ s.pc.k > Len(Top(s).ops.args)
    /\ t = Allocating(s, s.pc.region, Top(s).ops.size, s.pc.exclude,
                      Top(s).ops.id, s.pc.k, "compute")

\* op.run(Some(mem), dram) of a Compute, then heuristic.touch(dst, size)
ComputeExec(s, t) ==
    /\ s.status = "running" /\ s.pc.phase = "alloc" /\ s.pc.ret = "compute"
    /\ ~NeedsRoom(s)
    /\ LET r == s.pc.region
           mem == s.srams[r]
           ops == Top(s).ops
           e == Event("perform_op", "put", r, ops.id, ops.size, TRUE, s.pc.exclude)
       IN  IF ops.args = <<>>
           THEN t = Panicked(s, "index out of bounds", e)
           ELSE IF ~(\A x \in Range(ops.args) : contains(mem, x))
           THEN t = Panicked(s, "assert: argument not in SRAM", e)
           ELSE IF ~(size_total(mem) >= size_allocated(mem) + ops.size)
           THEN t = Panicked(s, "assert: no room for the output", e)
           ELSE IF put_panic(mem, ops.id, ops.size) # ""
           THEN t = Panicked(s, put_panic(mem, ops.id, ops.size), e)
           ELSE \E now \in Ticks(s) :
                   t = Return([Touched(s, ops.id, now) EXCEPT
                                 !.srams[r] = put(mem, ops.id, ops.size, TRUE),
                                 !.ev = e])

\* perform_op, Load
PerformLoad(s, t) ==
    /\ Ready(s, "Load")
    /\ LET ops == Top(s).ops
           r == ops.region
       IN  IF r = "host"
           THEN t = Return([s EXCEPT
                              !.dram = dram_put(@, ops.id, ops.size),
                              !.ev = Event("perform_op", "dram_put", "host", ops.id,
                                           ops.size, TRUE, {})])
           ELSE IF ~contains(s.srams[r], ops.id)
           THEN t = Allocating(s, r, ops.size, PerformExclude(Top(s)), ops.id, 0, "load")
           ELSE \E now \in Ticks(s) :
                   t = Return([Touched(s, ops.id, now) EXCEPT
                                 !.ev = Event("perform_op", "", r, ops.id, 0, FALSE,
                                              PerformExclude(Top(s)))])

\* op.run(Some(mem), dram) of a Load, then heuristic.touch(id, size_of(id))
LoadExec(s, t) ==
    /\ s.status = "running" /\ s.pc.phase = "alloc" /\ s.pc.ret = "load"
    /\ ~NeedsRoom(s)
    /\ LET r == s.pc.region
           mem == s.srams[r]
           ops == Top(s).ops
           e == Event("perform_op", "put", r, ops.id, ops.size, FALSE, s.pc.exclude)
       IN  IF ~contains(s.dram, ops.id)
           THEN t = Panicked(s, "assert: load of an id not in DRAM", e)
           ELSE IF put_panic(mem, ops.id, ops.size) # ""
           THEN t = Panicked(s, put_panic(mem, ops.id, ops.size), e)
           ELSE \E now \in Ticks(s) :
                   t = Return([Touched(s, ops.id, now) EXCEPT
                                 !.srams[r] = put(mem, ops.id, ops.size, FALSE),
                                 !.ev = e])

PerformStore_host_returns(s, t) ==
    /\ Ready(s, "Store")
    /\ LET ops == Top(s).ops
           r == ops.region
           e == Event("perform_op", "store", r, ops.id, 0, ops.evict, {})
       IN  IF r = "host"
           THEN t = Return([s EXCEPT !.ev = e])
           ELSE IF ~contains(s.srams[r], ops.id)
           THEN t = Panicked(s, "assert: store of a non-resident id", e)
           ELSE t = Return([s EXCEPT
                              !.srams[r] = store_sram(s.srams[r], ops.id, ops.evict),
                              !.dram = store_dram(s.srams[r], ops.id, s.dram),
                              !.heuristic = IF ops.evict THEN evict(@, ops.id) ELSE @,
                              !.ev = [e EXCEPT !.size = get(s.srams[r], ops.id)]])

\* perform_op, Store
PerformStore(s, t) ==
    /\ Ready(s, "Store")
    /\ LET ops == Top(s).ops
           r == ops.region
           e == Event("perform_op", "store", r, ops.id, 0, ops.evict, {})
       IN  IF r = "host"
           THEN t = Panicked(s, "Store should not performed on host", e)
           ELSE IF ~contains(s.srams[r], ops.id)
           THEN t = Panicked(s, "assert: store of a non-resident id", e)
           ELSE t = Return([s EXCEPT
                              !.srams[r] = store_sram(s.srams[r], ops.id, ops.evict),
                              !.dram = store_dram(s.srams[r], ops.id, s.dram),
                              !.heuristic = IF ops.evict THEN evict(@, ops.id) ELSE @,
                              !.ev = [e EXCEPT !.size = get(s.srams[r], ops.id)]])

\* evict_single(exclude, mem, dram) with ev the value choose returned
evict_single(s, ev) ==
    LET r == s.pc.region
        mem == s.srams[r]
        e == Event("evict_single", "", r, ev, 0, TRUE, s.pc.exclude)
    IN  IF ev = None
        THEN Panicked(s, "Thrashes here...", e)
        ELSE IF contains(s.dram, ev)
        THEN IF deallocate_panic(mem, ev) # ""
             THEN Panicked(s, deallocate_panic(mem, ev), e)
             ELSE [s EXCEPT !.srams[r] = deallocate(mem, ev),
                            !.heuristic = evict(@, ev),
                            !.ev = [e EXCEPT !.op = "deallocate", !.size = get(mem, ev)],
                            !.evlog = Append(@, [victim |-> ev, region |-> r,
                                                 how |-> "deallocate"])]
        ELSE IF store_panic(mem, ev) # ""
             THEN Panicked(s, store_panic(mem, ev), e)
             ELSE [s EXCEPT !.srams[r] = store_sram(mem, ev, TRUE),
                            !.dram = store_dram(mem, ev, s.dram),
                            !.heuristic = evict(@, ev),
                            !.ev = [e EXCEPT !.op = "store", !.size = get(mem, ev)],
                            !.evlog = Append(@, [victim |-> ev, region |-> r,
                                                 how |-> "store"])]

\* allocate_buffer: one turn of its loop
EvictSingle(s, t) ==
    /\ s.status = "running" /\ s.pc.phase = "alloc"
    /\ NeedsRoom(s)
    /\ \E ev \in choose(s.heuristic, s.srams[s.pc.region], s.pc.exclude) :
          t = evict_single(s, ev)

\* allocate_buffer returns to a client that called it
AllocateReturn(s, t) ==
    /\ s.status = "running" /\ s.pc.phase = "alloc" /\ s.pc.ret = "client"
    /\ ~NeedsRoom(s)
    /\ t = [s EXCEPT !.pc = PcAt("idle"), !.ev = NoEvent]

(***************************************************************************)
(* A client that calls the memories and the DTR interface directly         *)
(***************************************************************************)
Ids == 1 .. NumIds

Sizes == 1 .. MaxSize

\* the SRAM the client works on
ClientRegion == "A"

AtClient(s) ==
    /\ s.status = "running" /\ s.mode = "api"
    /\ s.pc.phase = "idle" /\ s.calls < MaxCalls

\* sram.put(id, size, from_self)
ApiPut(s, t) ==
    /\ AtClient(s)
    /\ \E id \in Ids, size \in Sizes, from_self \in BOOLEAN :
          LET r == ClientRegion
              e == Event("client", "put", r, id, size, from_self, {})
              c == [s EXCEPT !.calls = @ + 1]
          IN  IF put_panic(s.srams[r], id, size) # ""
              THEN t = Panicked(c, put_panic(s.srams[r], id, size), e)
              ELSE t = [c EXCEPT !.srams[r] = put(@, id, size, from_self), !.ev = e]

\* sram.store(id, evict, dram)
ApiStore(s, t) ==
    /\ AtClient(s)
    /\ \E id \in Ids, ev \in BOOLEAN :
          LET r == ClientRegion
              e == Event("client", "store", r, id, 0, ev, {})
              c == [s EXCEPT !.calls = @ + 1]
          IN  IF store_panic(s.srams[r], id) # ""
              THEN t = Panicked(c, store_panic(s.srams[r], id), e)
              ELSE t = [c EXCEPT !.srams[r] = store_sram(@, id, ev),
                                 !.dram = store_dram(s.srams[r], id, @),
                                 !.ev = [e EXCEPT !.size = get(s.srams[r], id)]]

\* sram.deallocate(id)
ApiDeallocate(s, t) ==
    /\ AtClient(s)
    /\ \E id \in Ids :
          LET r == ClientRegion
              e == Event("client", "deallocate", r, id, 0, FALSE, {})
              c == [s EXCEPT !.calls = @ + 1]
          IN  IF deallocate_panic(s.srams[r], id) # ""
              THEN t = Panicked(c, deallocate_panic(s.srams[r], id), e)
              ELSE t = [c EXCEPT !.srams[r] = deallocate(@, id),
                                 !.ev = [e EXCEPT !.size = get(s.srams[r], id)]]

\* sram.reset()
ApiReset(s, t) ==
    /\ AtClient(s)
    /\ t = [s EXCEPT !.calls = @ + 1,
                     !.srams[ClientRegion] = reset(@),
                     !.ev = Event("client", "reset", ClientRegion, None, 0, FALSE, {})]

\* jit.rematerialize(data, sram, dram, exclude)
ApiRematerialize(s, t) ==
    /\ AtClient(s)
    /\ \E data \in Ids, exclude \in SUBSET Ids :
          rematerialize([s EXCEPT !.calls = @ + 1], t, ClientRegion, data, exclude, 0)

\* jit.allocate_buffer(size, mem, dram, exclude)
ApiAllocateBuffer(s, t) ==
    /\ AtClient(s)
    /\ \E size \in 1 .. (MaxSize + 2), exclude \in SUBSET Ids :
          t = Allocating([s EXCEPT !.calls = @ + 1], ClientRegion, size, exclude,
                         None, 0, "client")

(***************************************************************************)
(* The inputs: the Operators trees that are run, each with the capacities  *)
(* of the SRAMs of its regions                                             *)
(***************************************************************************)
Caps(a, b) == [r \in Regions |-> IF r = "A" THEN a ELSE b]

Program(name, ops, caps) == [name |-> name, ops |-> ops, caps |-> caps]

\* what lowering emits for a tensor: Load("host", (x, NoOp), size)
HostLoad(x, size) == Load("host", x, NoOp, size)

\* an accelerator Load of a tensor the host loads first
AccLoad(r, x, size) == Load(r, x, HostLoad(x, size), size)

\* an accelerator Compute of dst from one argument that is loaded for it
Unary(r, dst, x, sub, size) == Compute(r, 9, dst, <<x>>, <<sub>>, size)

\* S3: two loads of size 8 feed a Compute of size 4
S3Tree == Compute("A", 9, 3, <<1, 2>>, <<AccLoad("A", 1, 8), AccLoad("A", 2, 8)>>, 4)

\* S5: three arguments of size 8
S5Tree ==
    Compute("A", 9, 4, <<1, 2, 3>>,
            <<AccLoad("A", 1, 8), AccLoad("A", 2, 8), AccLoad("A", 3, 8)>>, 8)

\* a Compute whose second argument is produced by a Compute on a loaded tensor
RematTree ==
    Compute("A", 9, 6, <<1, 3>>,
            <<AccLoad("A", 1, 1), Unary("A", 3, 2, AccLoad("A", 2, 2), 1)>>, 1)

WritebackTree ==
    Compute("A", 9, 6, <<5, 2>>,
            <<Unary("A", 5, 1, AccLoad("A", 1, 1), 1), AccLoad("A", 2, 1)>>, 1)

ChainTree ==
    Unary("A", 7, 6, Unary("A", 6, 5, Unary("A", 5, 1, AccLoad("A", 1, 1), 1), 1), 1)

\* two accelerators under one host Compute
MultiTree ==
    Compute("host", 9, 8, <<1, 5>>,
            <<AccLoad("A", 1, 1),
              Store("B", FALSE, 5, Unary("B", 5, 2, AccLoad("B", 2, 1), 1), 1)>>, 1)

\* two accelerators; the second argument of the Compute on B is in DRAM only
\* and is rematerialized when B is full
MultiRematTree ==
    Compute("host", 9, 8, <<1, 6>>,
            <<AccLoad("A", 1, 1),
              Store("B", FALSE, 6,
                    Compute("B", 9, 6, <<3, 2>>,
                            <<AccLoad("B", 3, 1), HostLoad(2, 1)>>, 1), 1)>>, 1)

\* one tensor loaded into two accelerators
SharedTree ==
    Compute("host", 9, 8, <<1, 1, 3>>,
            <<AccLoad("A", 1, 1),
              Store("B", TRUE, 1, Load("B", 1, NoOp, 1), 1),
              AccLoad("A", 3, 1)>>, 1)

StoreEvictTree ==
    Unary("A", 7, 5,
          Store("A", TRUE, 5, Unary("A", 5, 4, AccLoad("A", 4, 1), 1), 1), 1)

Programs ==
    { Program("S1", Compute("host", 3, 3, <<1, 2>>,
                            <<HostLoad(1, 1), HostLoad(2, 1)>>, 1), Caps(4, 4)),
      Program("S2", Store("A", FALSE, 5, Unary("A", 5, 4, AccLoad("A", 4, 1), 1), 1),
              Caps(4, 4)),
      Program("S3", S3Tree, Caps(12, 12)),
      Program("S3roomy", S3Tree, Caps(20, 20)),
      Program("S5", S5Tree, Caps(16, 16)),
      Program("Remat", RematTree, Caps(3, 3)),
      Program("Writeback2", WritebackTree, Caps(2, 2)),
      Program("Writeback3", WritebackTree, Caps(3, 3)),
      Program("Chain", ChainTree, Caps(2, 2)),
      Program("Multi1", MultiTree, Caps(1, 1)),
      Program("Multi2", MultiTree, Caps(1, 2)),
      Program("Shared", SharedTree, Caps(1, 1)),
      Program("MultiRemat", MultiRematTree, Caps(1, 1)),
      Program("StoreEvict", StoreEvictTree, Caps(2, 2)),
      Program("StoreHost", Store("host", FALSE, 1, HostLoad(1, 1), 1), Caps(2, 2)),
      Program("StoreHostIn",
              Compute("A", 9, 6, <<1, 2>>,
                      <<AccLoad("A", 1, 1),
                        Store("host", FALSE, 2, AccLoad("A", 2, 1), 1)>>, 1),
              Caps(2, 2)),
      Program("Warm", Compute("A", 9, 6, <<1, 2, 1>>,
                              <<AccLoad("A", 1, 1), AccLoad("A", 2, 1),
                                AccLoad("A", 1, 1)>>, 1),
              Caps(3, 3)),
      Program("Reload", Compute("A", 9, 6, <<1, 1>>,
                                <<AccLoad("A", 1, 1), AccLoad("A", 1, 1)>>, 1),
              Caps(2, 2)),
      Program("Missing", Unary("A", 6, 5, NoOp, 1), Caps(2, 2)),
      Program("NoArgs", Compute("host", 9, 7, <<6>>,
                                <<Compute("A", 9, 6, <<>>, <<>>, 1)>>, 1), Caps(2, 2)),
      Program("HostNoArgs", Compute("host", 9, 6, <<>>, <<>>, 1), Caps(2, 2)),
      Program("HostMissing", Compute("host", 9, 6, <<5>>, <<NoOp>>, 1), Caps(2, 2)),
      Program("TooBig", AccLoad("A", 1, 8), Caps(4, 4)) }

\* the client of the memories works on SRAMs of capacity MaxSize + 1
ClientProgram == Program("api", NoOp, Caps(MaxSize + 1, MaxSize + 1))

Kinds == {"Random", "LRU"}

(***************************************************************************)
(* The specifications                                                      *)
(***************************************************************************)
NoTwin == [name |-> "none"]

NoLow == [name |-> "none"]

\* what perform_op is called on: the variant, its region and its id
Sig(ops) == [t |-> ops.t, region |-> ops.region, id |-> ops.id]

\* the memories and the number of evictions when allocate_buffer is entered
AtCall(s) == [srams |-> s.srams, dram |-> s.dram, nev |-> Len(s.evlog)]

NoHistory(s) ==
    [ev |-> NoEvent, pre |-> s.srams, pre2 |-> s.srams,
     call |-> AtCall(s), order |-> <<>>]

\* history: the event of the step before the last one, the SRAMs before the
\* last step and before the step before it, the memories at the last entry
\* of allocate_buffer, and the operators perform_op was called on, in order
Remember ==
    hist' = [ev |-> sim.ev, pre |-> sim.srams, pre2 |-> hist.pre,
             call |-> IF sim'.pc.phase = "alloc" /\ sim.pc.phase # "alloc"
                      THEN AtCall(sim) ELSE hist.call,
             order |-> IF AtRun(sim) /\ Top(sim).ops.t # "NoOp"
                          /\ Top(sim).i > Len(Top(sim).ops.subs)
                       THEN Append(hist.order, Sig(Top(sim).ops))
                       ELSE hist.order]

Init ==
    /\ sim \in {SimInit(p, kind) : p \in Programs \cup {ClientProgram}, kind \in Kinds}
    /\ twin = NoTwin
    /\ low = NoLow
    /\ hist = NoHistory(sim)

\* one step of the simulator: of a run, or of a client's direct call
Next ==
    \/ RunNoOp(sim, sim') /\ Remember /\ UNCHANGED <<twin, low>>
    \/ RunSubop(sim, sim') /\ Remember /\ UNCHANGED <<twin, low>>
    \/ PerformHostCompute(sim, sim') /\ Remember /\ UNCHANGED <<twin, low>>
    \/ PerformCompute(sim, sim') /\ Remember /\ UNCHANGED <<twin, low>>
    \/ ComputeArg(sim, sim') /\ Remember /\ UNCHANGED <<twin, low>>
    \/ ComputeAllocate(sim, sim') /\ Remember /\ UNCHANGED <<twin, low>>
    \/ ComputeExec(sim, sim') /\ Remember /\ UNCHANGED <<twin, low>>
    \/ PerformLoad(sim, sim') /\ Remember /\ UNCHANGED <<twin, low>>
    \/ LoadExec(sim, sim') /\ Remember /\ UNCHANGED <<twin, low>>
    \/ PerformStore(sim, sim') /\ Remember /\ UNCHANGED <<twin, low>>
    \/ RematPut(sim, sim') /\ Remember /\ UNCHANGED <<twin, low>>
    \/ EvictSingle(sim, sim') /\ Remember /\ UNCHANGED <<twin, low>>
    \/ ApiPut(sim, sim') /\ Remember /\ UNCHANGED <<twin, low>>
    \/ ApiStore(sim, sim') /\ Remember /\ UNCHANGED <<twin, low>>
    \/ ApiDeallocate(sim, sim') /\ Remember /\ UNCHANGED <<twin, low>>
    \/ ApiReset(sim, sim') /\ Remember /\ UNCHANGED <<twin, low>>
    \/ ApiRematerialize(sim, sim') /\ Remember /\ UNCHANGED <<twin, low>>
    \/ ApiAllocateBuffer(sim, sim') /\ Remember /\ UNCHANGED <<twin, low>>
    \/ AllocateReturn(sim, sim') /\ Remember /\ UNCHANGED <<twin, low>>

Spec == Init /\ [][Next]_vars

(***************************************************************************)
(* Properties of the memories and of the simulator                         *)
(***************************************************************************)
Running(s) == s.status = "running"

Ended(s) == s.status # "running"

Thrashed(s) == s.status = "panic" /\ s.panic = "Thrashes here..."

\* the last step called evict_single and it removed a victim
Evicted(s) == s.ev.by = "evict_single" /\ s.ev.op \in {"deallocate", "store"}

\* allocate_buffer is about to call evict_single
AtEvictSingle(s) == Running(s) /\ s.pc.phase = "alloc" /\ NeedsRoom(s)

\* C1: in every reachable state, of a run or of a client's calls of put,
\* store, deallocate and reset, each SRAM's resident_size is the sum of the
\* sizes in its residence map and is at most its mem_limit.
C1_ResidentSize ==
    \A r \in Regions :
        /\ sim.srams[r].resident_size = MapSum(sim.srams[r].residence)
        /\ sim.srams[r].resident_size <= sim.srams[r].mem_limit

\* an SRAM that holds something after a tensor was evicted from it by store
C1_Witness ==
    /\ sim.ev.op = "store" /\ sim.ev.flag /\ ~Ended(sim)
    /\ sim.srams[sim.ev.region].resident_size > 0

\* C2: every tensor a call of evict_single removes from the SRAM is outside
\* the exclude set of that call.
C2_VictimNotExcluded ==
    [][sim'.ev.by = "evict_single" =>
          \A x \in to_vec(sim.srams[sim.pc.region]) \ to_vec(sim'.srams[sim.pc.region]) :
              x \notin sim.pc.exclude]_vars

\* evict_single of a run removed a victim while some ids were excluded
C2_Witness ==
    /\ sim.mode = "run" /\ Evicted(sim)
    /\ sim.ev.exclude # {}
    /\ ~contains(sim.srams[sim.ev.region], sim.ev.id)

\* the frames of run whose sub-operation is executing: accelerator Computes
\* below the innermost activation
Producing(s) ==
    {k \in 1 .. (Len(s.stack) - 1) :
        s.stack[k].ops.t = "Compute" /\ s.stack[k].ops.region # "host"}

\* C3 as stated: while the sub-operation of argument i of an accelerator
\* Compute executes, no other argument of it that is resident in the
\* accelerator's SRAM leaves that SRAM.
C3_SiblingsStay ==
    [][\A k \in Producing(sim) :
          LET ops == sim.stack[k].ops
              i == sim.stack[k].i - 1
          IN  \A j \in DOMAIN ops.args :
                  (j # i /\ ops.args[j] # ops.args[i]
                   /\ contains(sim.srams[ops.region], ops.args[j]))
                  => contains(sim'.srams[ops.region], ops.args[j])]_vars

\* C4 as stated: whenever a run calls choose(sram, exclude), every value it
\* can return is resident in sram and outside exclude, and it returns None
\* exactly when no resident of sram is outside exclude.
C4_ChooseContract ==
    (sim.mode = "run" /\ AtEvictSingle(sim)) =>
        LET sram == sim.srams[sim.pc.region]
            allowed == to_vec(sram) \ sim.pc.exclude
            got == choose(sim.heuristic, sram, sim.pc.exclude)
        IN  IF allowed = {} THEN got = {None} ELSE got \subseteq allowed

\* the change of trip_count the operation of the last step accounts for
TripOf(s, r) ==
    IF s.status = "panic" \/ s.ev.region # r THEN 0
    ELSE IF s.ev.op = "put" /\ ~s.ev.flag THEN 1
    ELSE IF s.ev.op = "store" THEN 1
    ELSE 0

\* C5: in every step an SRAM's trip_count grows by one when the step is a put
\* with from_self = false or a store (evict true or false) on that SRAM that
\* returns, and stays as it is in every other step (put with from_self =
\* true, deallocate, reset, a panic); so it never decreases.
C5_TripCount ==
    [][\A r \in Regions :
          sim'.srams[r].trip_count = sim.srams[r].trip_count + TripOf(sim', r)]_vars

\* a store with evict = false returned, after an earlier trip
C5_Witness ==
    /\ sim.ev.op = "store" /\ ~sim.ev.flag /\ sim.status # "panic"
    /\ sim.srams[sim.ev.region].trip_count >= 2

\* C6 as stated: when allocate_buffer of a run needs room and every resident
\* of the SRAM is excluded, the run ends in the thrashing error and the SRAMs
\* are as before.
C6_Thrash ==
    [][(sim.mode = "run" /\ AtEvictSingle(sim)
        /\ to_vec(sim.srams[sim.pc.region]) \subseteq sim.pc.exclude)
       => (Thrashed(sim') /\ sim'.srams = sim.srams)]_vars

\* the last two steps were store(id, false, dram) on a resident id and then
\* rematerialize of the same id, both returned
StoreThenRematerialize ==
    /\ hist.ev.by = "client" /\ hist.ev.op = "store" /\ ~hist.ev.flag
    /\ sim.ev.by = "rematerialize" /\ sim.status = "running"
    /\ sim.pc.phase = "idle"
    /\ sim.ev.id = hist.ev.id /\ sim.ev.region = hist.ev.region

\* C7 as stated: Store with evict = false followed by rematerialize of the
\* same tensor leaves the residency as it was and adds two to trip_count.
C7_TwoTrips ==
    StoreThenRematerialize =>
        LET r == sim.ev.region
        IN  /\ sim.srams[r].residence = hist.pre2[r].residence
            /\ sim.srams[r].trip_count = hist.pre2[r].trip_count + 2

\* C7, amended: Store with evict = false followed by rematerialize of the
\* same tensor leaves the residency and resident_size as they were and adds
\* exactly one to trip_count (the store; the tensor never left the SRAM, so
\* rematerialize loads nothing).
C7_OneTrip ==
    StoreThenRematerialize =>
        LET r == sim.ev.region
        IN  /\ sim.srams[r].residence = hist.pre2[r].residence
            /\ sim.srams[r].resident_size = hist.pre2[r].resident_size
            /\ sim.srams[r].trip_count = hist.pre2[r].trip_count + 1

C7_Witness ==
    /\ StoreThenRematerialize
    /\ contains(sim.srams[sim.ev.region], sim.ev.id)

\* the run of scenario S3 under LRU has ended
S3Ended == sim.name = "S3" /\ sim.heuristic.kind = "LRU" /\ Ended(sim)

\* C8 as stated: S3 under LRU completes, with one eviction (of the older
\* load) and trip_count 3.
C8_S3Completes ==
    S3Ended =>
        /\ sim.status = "done"
        /\ Len(sim.evlog) = 1 /\ sim.evlog[1].victim = 1
        /\ sim.srams["A"].trip_count = 3

\* C8, amended: S3 under LRU ends in the thrashing error, raised while the
\* Compute rematerializes its first argument with both arguments locked; the
\* older load was evicted once, by deallocate during the allocation for the
\* second Load, the output was never put, and trip_count is 2 (load, load).
C8_S3Thrashes ==
    S3Ended =>
        /\ Thrashed(sim)
        /\ sim.pc.ret = "remat" /\ sim.pc.data = 1 /\ sim.pc.exclude = {1, 2}
        /\ sim.evlog = <<[victim |-> 1, region |-> "A", how |-> "deallocate"]>>
        /\ to_vec(sim.srams["A"]) = {2}
        /\ sim.srams["A"].trip_count = 2

C8_Witness == S3Ended /\ sim.srams["A"].trip_count = 2

(***************************************************************************)
(* Properties of the memories and of the DTR operations, continued         *)
(***************************************************************************)
\* C13 as stated: a reset of an SRAM leaves its residence map and its evict
\* set empty, resident_size 0 and trip_count 0, and mem_limit as it was.
C13_ResetClears ==
    [][sim'.ev.op = "reset" =>
          LET r == sim'.ev.region
              m == sim'.srams[r]
          IN  /\ m.residence = EmptyMap /\ m.evict = {}
              /\ m.resident_size = 0
              /\ m.mem_limit = sim.srams[r].mem_limit
              /\ m.trip_count = 0]_vars

\* the tree a run was started on
ProgramOf(name) == CHOOSE p \in Programs : p.name = name

RECURSIVE HasHostStore(_)
HasHostStore(ops) ==
    \/ ops.t = "Store" /\ ops.region = "host"
    \/ \E j \in DOMAIN ops.subs : HasHostStore(ops.subs[j])

HostStorePanic(s) ==
    s.status = "panic" /\ s.panic = "Store should not performed on host"

\* C14: when run reaches perform_op of a Store whose region is "host" (its
\* sub-operation has returned), the step ends the run in the panic "Store
\* should not performed on host" and leaves every SRAM and the DRAM as they
\* were; and no run of a tree that holds such a Store completes.
C14_HostStoreFatal ==
    [][/\ (Ready(sim, "Store") /\ Top(sim).ops.region = "host")
           => (HostStorePanic(sim') /\ sim'.srams = sim.srams /\ sim'.dram = sim.dram)
       /\ (sim.mode = "run" /\ sim'.status = "done")
           => ~HasHostStore(ProgramOf(sim.name).ops)]_vars

\* a host Store panicked after loads into an SRAM
C14_Witness ==
    /\ HostStorePanic(sim)
    /\ \E r \in Regions : sim.srams[r].trip_count > 0 /\ to_vec(sim.srams[r]) # {}

\* the last step touched the id of its event in the heuristic
TouchStep(s) ==
    /\ s.status # "panic"
    /\ s.ev.by \in {"perform_op", "rematerialize"}
    /\ s.ev.region # "host" /\ s.ev.op \in {"", "put"}

\* C15: for LRU, (1) an id has at most one entry; (2) every value choose can
\* return when evict_single calls it is None if no tracked id is outside
\* exclude, and else a tracked id outside exclude whose entry (the Instant
\* of its last touch) is the oldest of those; (3) after a touch of an id its
\* entry carries the Instant of that touch, older than no other entry; (4)
\* after evict(id), from evict_single or a Store with evict, the id has no
\* entry.
C15_LRUOldest ==
    [][sim.heuristic.kind = "LRU" =>
          /\ \A e, f \in sim'.heuristic.member : e.d = f.d => e = f
          /\ AtEvictSingle(sim) =>
                LET cand == {e \in sim.heuristic.member : e.d \notin sim.pc.exclude}
                IN  /\ sim'.ev.by = "evict_single"
                    /\ IF cand = {} THEN sim'.ev.id = None
                       ELSE \E e \in cand : /\ e.d = sim'.ev.id
                                            /\ \A f \in cand : e.t <= f.t
          /\ TouchStep(sim') =>
                /\ [t |-> sim'.now, d |-> sim'.ev.id] \in sim'.heuristic.member
                /\ \A f \in sim'.heuristic.member : f.t <= sim'.now
          /\ (sim'.status # "panic"
              /\ \/ Evicted(sim')
                 \/ sim'.ev.by = "perform_op" /\ sim'.ev.op = "store" /\ sim'.ev.flag)
             => \A e \in sim'.heuristic.member : e.d # sim'.ev.id]_vars

\* LRU evicted the older of several tracked ids, one of which was touched
\* more than once before
C15_Witness ==
    /\ sim.heuristic.kind = "LRU" /\ Evicted(sim) /\ Running(sim)
    /\ sim.heuristic.member # {}
    /\ \A e \in sim.heuristic.member : e.t > 1
    /\ sim.now > Cardinality(sim.heuristic.member) + 1

\* C16 as stated: when evict_single has a victim from choose, the victim was
\* resident and is removed from the SRAM, resident_size drops by its size and
\* the heuristic drops it; if the DRAM held it, the DRAM and trip_count stay
\* as they were (deallocate); else the DRAM gets it with its SRAM size and
\* trip_count grows by one (store with evict = true).
C16_EvictSingle ==
    [][(sim'.ev.by = "evict_single" /\ sim'.ev.id # None) =>
          LET v == sim'.ev.id
              r == sim.pc.region
              m == sim.srams[r]
              n == sim'.srams[r]
          IN  /\ contains(m, v)
              /\ sim'.status # "panic"
              /\ ~contains(n, v)
              /\ n.resident_size = m.resident_size - m.residence[v]
              /\ n.residence = MapRemove(m.residence, v)
              /\ \A e \in sim'.heuristic.member : e.d # v
              /\ IF contains(sim.dram, v)
                 THEN /\ sim'.dram = sim.dram
                      /\ n.trip_count = m.trip_count
                      /\ sim'.ev.op = "deallocate"
                 ELSE /\ sim'.dram = dram_put(sim.dram, v, m.residence[v])
                      /\ n.trip_count = m.trip_count + 1
                      /\ sim'.ev.op = "store"]_vars

\* the evictions since allocate_buffer was entered, as places of evlog
Since(h, s) == (h.call.nev + 1) .. Len(s.evlog)

\* heuristic.touch(data, _) has just been called (nothing to see for Random)
JustTouched(s, data) ==
    s.heuristic.kind = "LRU" => [t |-> s.now, d |-> data] \in s.heuristic.member

\* C17 as stated: rematerialize of a tensor that is in DRAM and not in the
\* SRAM ends only by returning or in the thrashing error; when it returns the
\* tensor is resident at the size DRAM recorded, trip_count has grown by one
\* plus one per victim written back, and no victim was in exclude.
\* rematerialize of a resident tensor leaves the SRAMs and the DRAM as they
\* were.  Either way the heuristic is touched for the tensor.
C17_Rematerialize ==
    [][/\ (sim.pc.phase = "alloc" /\ sim.pc.ret = "remat" /\ sim'.status = "panic")
           => Thrashed(sim')
       /\ (sim'.ev.by = "rematerialize" /\ sim'.ev.op = "put" /\ sim'.status # "panic")
           => LET r == sim.pc.region
                  data == sim.pc.data
                  n == sim'.srams[r]
              IN  /\ contains(n, data)
                  /\ n.residence[data] = hist.call.dram.residence[data]
                  /\ n.trip_count = hist.call.srams[r].trip_count + 1
                        + Cardinality({j \in Since(hist, sim') :
                                          sim'.evlog[j].how = "store"})
                  /\ \A j \in Since(hist, sim') :
                        sim'.evlog[j].victim \notin sim.pc.exclude
                  /\ JustTouched(sim', data)
       /\ (sim'.ev.by = "rematerialize" /\ sim'.ev.op = "" /\ sim'.status # "panic")
           => /\ sim'.srams = sim.srams /\ sim'.dram = sim.dram
              /\ JustTouched(sim', sim'.ev.id)]_vars

\* C18: a store(id, evict, dram) on an SRAM (by a client, by a Store, or by
\* evict_single) returns exactly when id is resident, and is a panic that
\* leaves the SRAM as it was when it is not; when it returns, DRAM holds id
\* with the size the SRAM recorded and is otherwise as before; with evict =
\* false the SRAM's residence, resident_size and evict set are unchanged;
\* with evict = true id is removed from residence and added to the evict
\* set, and resident_size drops by the tensor's size.
C18_Store ==
    [][(sim'.ev.op = "store" /\ sim'.ev.region \in Regions) =>
          LET r == sim'.ev.region
              id == sim'.ev.id
              m == sim.srams[r]
              n == sim'.srams[r]
          IN  IF ~contains(m, id)
              THEN sim'.status = "panic" /\ n = m /\ sim'.dram = sim.dram
              ELSE /\ sim'.status # "panic"
                   /\ contains(sim'.dram, id)
                   /\ sim'.dram.residence[id] = m.residence[id]
                   /\ \A x \in DOMAIN sim.dram.residence \ {id} :
                         /\ contains(sim'.dram, x)
                         /\ sim'.dram.residence[x] = sim.dram.residence[x]
                   /\ DOMAIN sim'.dram.residence = DOMAIN sim.dram.residence \cup {id}
                   /\ IF sim'.ev.flag
                      THEN /\ ~contains(n, id)
                           /\ n.residence = [x \in DOMAIN m.residence \ {id} |->
                                                m.residence[x]]
                           /\ n.evict = m.evict \cup {id}
                           /\ n.resident_size = m.resident_size - m.residence[id]
                      ELSE /\ n.residence = m.residence
                           /\ n.evict = m.evict
                           /\ n.resident_size = m.resident_size]_vars

\* a client's store with evict = true moved a tensor to an empty DRAM and
\* left another tensor resident
C18_Witness ==
    /\ sim.ev.by = "client" /\ sim.ev.op = "store" /\ sim.ev.flag
    /\ sim.status = "running"
    /\ DOMAIN sim.dram.residence = {sim.ev.id}
    /\ sim.ev.id \in sim.srams[sim.ev.region].evict
    /\ to_vec(sim.srams[sim.ev.region]) # {}

\* C19: perform_op of an accelerator Load whose id is resident in the
\* region's SRAM leaves all SRAMs (residence, resident_size, trip_count) and
\* the DRAM as they were, evicts nothing and returns, and under LRU the id's
\* entry is then the newest one; for an id that is not resident it enters
\* allocate_buffer with the Load's size, and when that returns, for an id
\* DRAM holds, the id is put at that size with from_self = false, which adds
\* one to trip_count, and the id is touched.
C19_Load ==
    [][/\ (Ready(sim, "Load") /\ Top(sim).ops.region # "host") =>
             LET ops == Top(sim).ops
                 r == ops.region
             IN  IF contains(sim.srams[r], ops.id)
                 THEN /\ sim'.srams = sim.srams /\ sim'.dram = sim.dram
                      /\ sim'.evlog = sim.evlog
                      /\ sim'.status # "panic" /\ sim'.pc.phase = "run"
                      /\ JustTouched(sim', ops.id)
                      /\ \A f \in sim'.heuristic.member : f.t <= sim'.now
                 ELSE /\ sim'.srams = sim.srams /\ sim'.dram = sim.dram
                      /\ sim'.pc.phase = "alloc" /\ sim'.pc.region = r
                      /\ sim'.pc.size = ops.size
       /\ (sim.pc.phase = "alloc" /\ sim.pc.ret = "load"
           /\ ~NeedsRoom(sim) /\ contains(sim.dram, Top(sim).ops.id)) =>
             LET ops == Top(sim).ops
                 r == ops.region
                 m == sim.srams[r]
                 n == sim'.srams[r]
             IN  /\ sim'.status # "panic"
                 /\ n.residence = [x \in DOMAIN m.residence \cup {ops.id} |->
                                      IF x = ops.id THEN ops.size ELSE m.residence[x]]
                 /\ n.resident_size = m.resident_size + ops.size
                 /\ n.trip_count = m.trip_count + 1
                 /\ sim'.dram = sim.dram
                 /\ JustTouched(sim', ops.id)]_vars

\* under LRU a Load of a resident id was performed while an id touched
\* after it was tracked: the reloaded id is now the newest entry
C19_Witness ==
    /\ sim.heuristic.kind = "LRU" /\ sim.status = "running"
    /\ sim.ev.by = "perform_op" /\ sim.ev.op = "" /\ sim.ev.exclude = {}
    /\ hist.pre = sim.srams
    /\ [t |-> sim.now, d |-> sim.ev.id] \in sim.heuristic.member
    /\ \E f \in sim.heuristic.member : f.d # sim.ev.id /\ f.t < sim.now /\ f.t > 1

\* the operators of a tree in the order depth-first, left-to-right execution
\* calls perform_op on them: the sub-operations in their declared order, each
\* with all below it, then the node
RECURSIVE PostOrder(_)
RECURSIVE PostOrderAll(_)
PostOrderAll(subs) ==
    IF subs = <<>> THEN <<>>
    ELSE PostOrder(Head(subs)) \o PostOrderAll(Tail(subs))

PostOrder(ops) ==
    IF ops.t = "NoOp" THEN <<>> ELSE PostOrderAll(ops.subs) \o <<Sig(ops)>>

IsPrefix(a, b) == Len(a) <= Len(b) /\ a = SubSeq(b, 1, Len(a))

\* C20: in every run the operators perform_op is called on, in the order of
\* the calls, are a prefix of the depth-first, left-to-right post-order of
\* the tree, and the whole of it when the run completes; every step that
\* changes an SRAM or the DRAM belongs to the perform_op called last, on the
\* innermost activation of run; and the run of a NoOp changes no memory, no
\* heuristic and calls no perform_op.
C20_DepthFirst ==
    [][sim.mode = "run" =>
          /\ IsPrefix(hist'.order, PostOrder(ProgramOf(sim.name).ops))
          /\ sim'.status = "done" => hist'.order = PostOrder(ProgramOf(sim.name).ops)
          /\ (sim'.srams # sim.srams \/ sim'.dram # sim.dram) =>
                /\ hist'.order # <<>>
                /\ hist'.order[Len(hist'.order)] = Sig(Top(sim).ops)
                /\ Top(sim).i > Len(Top(sim).ops.subs)
          /\ (AtRun(sim) /\ Top(sim).ops.t = "NoOp") =>
                /\ sim'.srams = sim.srams /\ sim'.dram = sim.dram
                /\ sim'.heuristic = sim.heuristic
                /\ hist'.order = hist.order]_vars

\* a run of a tree of at least five operators, one of them under a
\* sub-operation of a sub-operation, completed
C20_Witness ==
    /\ sim.mode = "run" /\ sim.status = "done"
    /\ Len(hist.order) >= 5
    /\ \E j \in 1 .. (Len(hist.order) - 1) :
          hist.order[j].t = "Compute" /\ hist.order[j].region # "host"

\* inside allocate_buffer: the residents of its SRAM when it was entered,
\* the victims evict_single has removed since, and its calls of evict_single
\* (the one that ended in a panic included)
ResidentsAtCall == Cardinality(to_vec(hist.call.srams[sim.pc.region]))

Evictions == Len(sim.evlog) - hist.call.nev

EvictCalls ==
    Evictions + (IF sim.status = "panic" /\ sim.ev.by = "evict_single" THEN 1 ELSE 0)

\* C23 as stated: allocate_buffer makes at most as many calls of evict_single
\* as its SRAM had residents when it was entered.
C23_AtMostResidents ==
    sim.pc.phase = "alloc" => EvictCalls <= ResidentsAtCall

\* C23, amended: inside allocate_buffer every call of evict_single that
\* returns has removed exactly one resident of the SRAM, so at most as many
\* calls return as the SRAM had residents at entry, and at most one more call
\* is made, which ends in a fatal error; allocate_buffer goes on only while
\* room is missing, so it returns with size_allocated + size <= size_total or
\* ends in a fatal error after at most residents + 1 calls.
C23_Terminates ==
    sim.pc.phase = "alloc" =>
        /\ Evictions <= ResidentsAtCall
        /\ Cardinality(to_vec(sim.srams[sim.pc.region])) = ResidentsAtCall - Evictions
        /\ EvictCalls <= ResidentsAtCall + 1
        /\ (sim.ev.by = "evict_single" /\ sim.status # "panic") => Evicted(sim)

\* allocate_buffer for a size above the capacity removed every resident and
\* then ended in the thrashing error
C23_Witness ==
    /\ sim.pc.phase = "alloc" /\ Thrashed(sim)
    /\ sim.pc.size > size_total(sim.srams[sim.pc.region])
    /\ Evictions >= 1 /\ Evictions = ResidentsAtCall

\* run is at op.run of an accelerator Compute: allocate_buffer has returned
AtComputeExec(s) ==
    /\ Running(s) /\ s.mode = "run"
    /\ s.pc.phase = "alloc" /\ s.pc.ret = "compute" /\ ~NeedsRoom(s)

\* C24 as stated: whenever a run is at the execution of an accelerator
\* Compute, every argument of the Compute is resident in the region's SRAM
\* and size_allocated + size <= size_total; no run ends in one of the two
\* assertions of that step or in the OOM error of SRAM put; and a run that
\* ends inside allocate_buffer, for lack of room, ends in the thrashing error.
C24_ComputeExecSafe ==
    /\ AtComputeExec(sim) =>
          LET ops == Top(sim).ops
              mem == sim.srams[sim.pc.region]
          IN  /\ sim.pc.region = ops.region
              /\ \A x \in Range(ops.args) : contains(mem, x)
              /\ size_allocated(mem) + ops.size <= size_total(mem)
    /\ (sim.mode = "run" /\ sim.status = "panic") =>
          /\ sim.panic \notin {"assert: argument not in SRAM",
                               "assert: no room for the output", "OOM on SRAM"}
          /\ (sim.pc.phase = "alloc" /\ NeedsRoom(sim)) => Thrashed(sim)

\* C25: every victim evict_single has removed from an SRAM is in DRAM, from
\* the step that removed it on, and no step removes an id from DRAM.
C25_NothingLost ==
    [][/\ DOMAIN sim.dram.residence \subseteq DOMAIN sim'.dram.residence
       /\ Evicted(sim') => contains(sim'.dram, sim'.ev.id)
       /\ \A j \in DOMAIN sim'.evlog : contains(sim'.dram, sim'.evlog[j].victim)]_vars

\* a tensor evict_single wrote back to DRAM was rematerialized from there
C25_Witness ==
    /\ sim.mode = "run" /\ sim.status # "panic"
    /\ sim.ev.by = "rematerialize" /\ sim.ev.op = "put"
    /\ \E j \in DOMAIN sim.evlog :
          sim.evlog[j].victim = sim.ev.id /\ sim.evlog[j].how = "store"

(***************************************************************************)
(* Two runs of one input, the second (twin) after the first                *)
(***************************************************************************)
InitPair ==
    /\ sim \in {SimInit(p, kind) : p \in Programs, kind \in Kinds}
    /\ twin = sim
    /\ low = NoLow
    /\ hist = NoHistory(sim)

NextPair ==
    \/ RunNoOp(sim, sim') /\ UNCHANGED <<twin, low, hist>>
    \/ RunSubop(sim, sim') /\ UNCHANGED <<twin, low, hist>>
    \/ PerformHostCompute(sim, sim') /\ UNCHANGED <<twin, low, hist>>
    \/ PerformCompute(sim, sim') /\ UNCHANGED <<twin, low, hist>>
    \/ ComputeArg(sim, sim') /\ UNCHANGED <<twin, low, hist>>
    \/ ComputeAllocate(sim, sim') /\ UNCHANGED <<twin, low, hist>>
    \/ ComputeExec(sim, sim') /\ UNCHANGED <<twin, low, hist>>
    \/ PerformLoad(sim, sim') /\ UNCHANGED <<twin, low, hist>>
    \/ LoadExec(sim, sim') /\ UNCHANGED <<twin, low, hist>>
    \/ PerformStore(sim, sim') /\ UNCHANGED <<twin, low, hist>>
    \/ RematPut(sim, sim') /\ UNCHANGED <<twin, low, hist>>
    \/ EvictSingle(sim, sim') /\ UNCHANGED <<twin, low, hist>>
    \/ Ended(sim) /\ RunNoOp(twin, twin') /\ UNCHANGED <<sim, low, hist>>
    \/ Ended(sim) /\ RunSubop(twin, twin') /\ UNCHANGED <<sim, low, hist>>
    \/ Ended(sim) /\ PerformHostCompute(twin, twin') /\ UNCHANGED <<sim, low, hist>>
    \/ Ended(sim) /\ PerformCompute(twin, twin') /\ UNCHANGED <<sim, low, hist>>
    \/ Ended(sim) /\ ComputeArg(twin, twin') /\ UNCHANGED <<sim, low, hist>>
    \/ Ended(sim) /\ ComputeAllocate(twin, twin') /\ UNCHANGED <<sim, low, hist>>
    \/ Ended(sim) /\ ComputeExec(twin, twin') /\ UNCHANGED <<sim, low, hist>>
    \/ Ended(sim) /\ PerformLoad(twin, twin') /\ UNCHANGED <<sim, low, hist>>
    \/ Ended(sim) /\ LoadExec(twin, twin') /\ UNCHANGED <<sim, low, hist>>
    \/ Ended(sim) /\ PerformStore(twin, twin') /\ UNCHANGED <<sim, low, hist>>
    \/ Ended(sim) /\ RematPut(twin, twin') /\ UNCHANGED <<sim, low, hist>>
    \/ Ended(sim) /\ EvictSingle(twin, twin') /\ UNCHANGED <<sim, low, hist>>

SpecPair == InitPair /\ [][NextPair]_vars

\* what a run leaves behind: each SRAM's residency and trip_count, the DRAM's
\* residency, and the evictions in their order
Outcome(s) ==
    [srams |-> [r \in Regions |->
                   [residence |-> s.srams[r].residence,
                    trip_count |-> s.srams[r].trip_count]],
     dram |-> s.dram.residence,
     evictions |-> s.evlog]

\* C9 as stated: two runs on the same tree, from the same memories, with the
\* same kind of heuristic, make the same evictions in the same order and end
\* with the same SRAM residency, DRAM residency and trip_count.
C9_Deterministic ==
    (Ended(sim) /\ Ended(twin)) => Outcome(sim) = Outcome(twin)

(***************************************************************************)
(* Lowering: compile_instruction (from_glenside.rs 9-215)                  *)
(*                                                                         *)
(* An input E is [nodes, xl, accel]: expr.nodes as a function of the id,   *)
(* each node [kind, ch] a Language variant with its children;              *)
(* id_translation as xl; and accel[id], the accelerator's name when the    *)
(* e-class id carries MyAnalysisData::AcceleratorFunc, "" when it does     *)
(* not.  A result is Some((op, id)), None, or a panic, each with the memo  *)
(* as the call leaves it.                                                  *)
(***************************************************************************)
LSome(op, id, memo) == [tag |-> "Some", op |-> op, id |-> id, memo |-> memo, msg |-> ""]

LNone(memo) == [tag |-> "None", op |-> NoOp, id |-> None, memo |-> memo, msg |-> ""]

LPanic(msg, memo) == [tag |-> "Panic", op |-> NoOp, id |-> None, memo |-> memo, msg |-> msg]

PassThrough_access_only == {"Access"}

PassThrough == {"Access", "AccessInsertAxis", "AccessBroadcast"}

Metadata == {"RelayActivationLayout", "Usize", "Shape", "RelayKernelLayout"}

\* ids[from .. to], empty when from > to
Slice(ids, from, to) == [j \in 1 .. Max(0, to - from + 1) |-> ids[from + j - 1]]

Translate(E, ids) == [j \in DOMAIN ids |-> E.xl[ids[j]]]

\* the AccessFlatten arm (205-208): no memo.insert
FlattenMemo(memo, cur) == memo

RECURSIVE compile_instruction(_, _, _)
RECURSIVE LowerEach(_, _, _)

\* the loops over the children of a call or a pair: each child is lowered on
\* the memo the one before it left, and those that return Some are collected
LowerEach(E, ids, memo) ==
    IF ids = <<>>
    THEN [msg |-> "", args |-> <<>>, subs |-> <<>>, memo |-> memo]
    ELSE LET r == compile_instruction(E, Head(ids), memo)
         IN  IF r.tag = "Panic"
             THEN [msg |-> r.msg, args |-> <<>>, subs |-> <<>>, memo |-> r.memo]
             ELSE LET rest == LowerEach(E, Tail(ids), r.memo)
                  IN  IF r.tag = "Some" /\ rest.msg = ""
                      THEN [rest EXCEPT !.args = <<r.id>> \o @, !.subs = <<r.op>> \o @]
                      ELSE rest

compile_instruction(E, current_id0, memo) ==
    LET current_id == E.xl[current_id0]
        node == E.nodes[current_id]
        ch == node.ch
    IN
    IF current_id \in DOMAIN memo
    THEN LSome(NoOp, memo[current_id], memo)
    ELSE IF node.kind = "RelayOperatorCall"
    THEN IF ~(Len(ch) > 1) THEN LPanic("assert: ids.len() > 1", memo)
         ELSE IF E.nodes[ch[1]].kind # "RelayOperator"
         THEN LPanic("Expecting a RelayOperator", memo)
         ELSE LET c == LowerEach(E, Slice(ch, 2, Len(ch)), memo)
              IN  IF c.msg # "" THEN LPanic(c.msg, c.memo)
                  ELSE IF c.subs = <<>> THEN LPanic("Empty children at call", c.memo)
                  ELSE LSome(Compute("host", Translate(E, ch)[1], current_id,
                                     c.args, c.subs, 1),
                             current_id, MapInsert(c.memo, current_id, current_id))
    ELSE IF node.kind \in {"AcceleratorLoad", "AcceleratorStore"}
    THEN LET r == compile_instruction(E, ch[2], memo)
             region == E.accel[E.xl[ch[1]]]
         IN  IF r.tag = "Panic" THEN r
             ELSE IF r.tag = "None" THEN LPanic("unwrap on None", r.memo)
             ELSE IF region = "" THEN LPanic("Not a valid accelerator load/store", r.memo)
             ELSE LSome(IF node.kind = "AcceleratorLoad"
                        THEN Load(region, r.id, r.op, 1)
                        ELSE Store(region, FALSE, r.id, r.op, 1),
                        r.id, MapInsert(r.memo, current_id, r.id))
    ELSE IF node.kind = "AcceleratorCall"
    THEN LET c == LowerEach(E, Slice(ch, 2, Len(ch) - 1), memo)
             region == E.accel[Translate(E, ch)[1]]
         IN  IF c.msg # "" THEN LPanic(c.msg, c.memo)
             ELSE IF c.subs = <<>> THEN LPanic("Empty children at call", c.memo)
             ELSE IF region = "" THEN LPanic("Not a valid accelerator store", c.memo)
             ELSE LSome(Compute(region, Translate(E, ch)[1], current_id,
                                c.args, c.subs, 1),
                        current_id, MapInsert(c.memo, current_id, current_id))
    ELSE IF node.kind = "Compute"
    THEN LET r == compile_instruction(E, ch[2], memo)
         IN  IF r.tag = "Panic" THEN r
             ELSE IF r.tag = "None" THEN LPanic("unwrap on None", r.memo)
             ELSE LSome(Compute("host", ch[1], current_id, <<r.id>>, <<r.op>>, 1),
                        current_id, MapInsert(r.memo, current_id, current_id))
    ELSE IF node.kind = "AccessPair"
    THEN LET c == LowerEach(E, ch, memo)
         IN  IF c.msg # "" THEN LPanic(c.msg, c.memo)
             ELSE IF Len(c.subs) > 0
             THEN LSome(Compute("host", current_id, current_id, c.args, c.subs, 1),
                        current_id, MapInsert(c.memo, current_id, current_id))
             ELSE LNone(MapInsert(c.memo, current_id, current_id))
    ELSE IF node.kind \in PassThrough
    THEN compile_instruction(E, ch[1], memo)
    ELSE IF node.kind \in {"AccessLiteral", "AccessTensor"}
    THEN LSome(Load("host", current_id, NoOp, 1), current_id,
               MapInsert(memo, current_id, current_id))
    ELSE IF node.kind = "AccessFlatten"
    THEN LET r == compile_instruction(E, ch[1], memo)
         IN  IF r.tag = "Panic" THEN r
             ELSE IF r.tag = "None" THEN LPanic("unwrap on None", r.memo)
             ELSE LSome(Compute("host", current_id, current_id, <<r.id>>, <<r.op>>, 1),
                        current_id, FlattenMemo(r.memo, current_id))
    ELSE IF node.kind \in Metadata
    THEN LNone(memo)
    ELSE LPanic("Not supported", memo)

(***************************************************************************)
(* The inputs of the lowering, and a client that lowers source ids one     *)
(* after the other on one memo                                             *)
(***************************************************************************)
Node(kind, ch) == [kind |-> kind, ch |-> ch]

\* the identity translation on 1 .. n, with the ids of alias sent elsewhere
Translation(n, alias) == [x \in 1 .. n |-> IF x \in DOMAIN alias THEN alias[x] ELSE x]

\* an accelerator round trip under host operators; id 16 is a second source
\* id of the tensor 1
RoundTrip ==
    [name |-> "RoundTrip",
     nodes |-> << Node("AccessTensor", <<>>),              \* 1
                  Node("AccessLiteral", <<>>),             \* 2
                  Node("AcceleratorFunc", <<>>),           \* 3
                  Node("AcceleratorLoad", <<3, 1>>),       \* 4
                  Node("AcceleratorLoad", <<3, 2>>),       \* 5
                  Node("Shape", <<>>),                     \* 6
                  Node("AcceleratorCall", <<3, 4, 5, 6>>), \* 7
                  Node("AcceleratorStore", <<3, 7>>),      \* 8
                  Node("AccessFlatten", <<8>>),            \* 9
                  Node("Access", <<9, 6>>),                \* 10
                  Node("AccessPair", <<10, 16>>),          \* 11
                  Node("RelayOperator", <<>>),             \* 12
                  Node("RelayOperatorCall", <<12, 11, 6>>),\* 13
                  Node("Compute", <<15, 13>>),             \* 14
                  Node("ComputeType", <<>>),               \* 15
                  Node("AccessTensor", <<>>),              \* 16
                  Node("AccessPair", <<6, 6>>) >>,         \* 17
     xl |-> Translation(17, (16 :> 1)),
     accel |-> [x \in 1 .. 17 |-> IF x = 3 THEN "A" ELSE ""]]

\* S6: one tensor under two sibling Computes of a common parent, and the
\* pass-through variants over a flattened tensor
Shared6 ==
    [name |-> "Shared6",
     nodes |-> << Node("AccessTensor", <<>>),              \* 1
                  Node("ComputeType", <<>>),               \* 2
                  Node("Compute", <<2, 1>>),               \* 3
                  Node("Compute", <<2, 1>>),               \* 4
                  Node("AccessPair", <<3, 4>>),            \* 5
                  Node("Usize", <<>>),                     \* 6
                  Node("AccessInsertAxis", <<1, 6>>),      \* 7
                  Node("AccessBroadcast", <<7, 6>>),       \* 8
                  Node("AccessFlatten", <<8>>),            \* 9
                  Node("AcceleratorLoad", <<2, 1>>),       \* 10
                  Node("AcceleratorStore", <<6, 6>>) >>,   \* 11
     xl |-> Translation(11, (4 :> 4)),
     accel |-> [x \in 1 .. 11 |-> ""]]

\* source ids with a canonical id of their own elsewhere: the operator 4 of
\* the Compute 3 is translated to 2, the operator 6 of the call 7 to 5
Aliased ==
    [name |-> "Aliased",
     nodes |-> << Node("AccessTensor", <<>>),              \* 1
                  Node("ComputeType", <<>>),               \* 2
                  Node("Compute", <<4, 1>>),               \* 3
                  Node("ComputeType", <<>>),               \* 4
                  Node("RelayOperator", <<>>),             \* 5
                  Node("RelayOperator", <<>>),             \* 6
                  Node("RelayOperatorCall", <<6, 3>>) >>,  \* 7
     xl |-> Translation(7, (4 :> 2) @@ (6 :> 5)),
     accel |-> [x \in 1 .. 7 |-> ""]]

\* pairs whose children emit nothing (4), or only one of them (3, 7), and a
\* call that refers to the pair 4 twice
Pairs ==
    [name |-> "Pairs",
     nodes |-> << Node("AccessTensor", <<>>),                 \* 1
                  Node("Shape", <<>>),                        \* 2
                  Node("AccessPair", <<2, 1>>),               \* 3
                  Node("AccessPair", <<2, 2>>),               \* 4
                  Node("RelayOperator", <<>>),                \* 5
                  Node("RelayOperatorCall", <<5, 4, 4, 1>>),  \* 6
                  Node("AccessPair", <<1, 2>>) >>,            \* 7
     xl |-> Translation(7, <<>>),
     accel |-> [x \in 1 .. 7 |-> ""]]

\* a host operator applied to the result of an accelerator call, whose second
\* argument is a tensor of the host
BareCall ==
    [name |-> "BareCall",
     nodes |-> << Node("AccessTensor", <<>>),                 \* 1
                  Node("AcceleratorFunc", <<>>),              \* 2
                  Node("AcceleratorLoad", <<2, 1>>),          \* 3
                  Node("Shape", <<>>),                        \* 4
                  Node("AccessTensor", <<>>),                 \* 5
                  Node("AcceleratorCall", <<2, 3, 5, 4>>),    \* 6
                  Node("RelayOperator", <<>>),                \* 7
                  Node("RelayOperatorCall", <<7, 6>>) >>,     \* 8
     xl |-> Translation(8, <<>>),
     accel |-> [x \in 1 .. 8 |-> IF x = 2 THEN "A" ELSE ""]]

Exprs == {RoundTrip, Shared6, Aliased, Pairs, BareCall}

ExprOf(name) == CHOOSE E \in Exprs : E.name = name

\* what a call returned, without the memo
Returned(r) == [tag |-> r.tag, op |-> r.op, id |-> r.id]

NoResult == [tag |-> "", op |-> NoOp, id |-> None]

\* low: the memo the client keeps, the number of its calls, the last call
\* (its source id, whether that id was lowered before, what it returned and
\* what the first call on that id returned) and the first result per id
LowInit(E) ==
    [name |-> E.name, memo |-> EmptyMap, calls |-> 0, status |-> "running",
     last |-> [src |-> None, again |-> FALSE, ret |-> NoResult, was |-> NoResult],
     first |-> EmptyMap]

\* compile_instruction(src, expr, memo, egraph, id_translation)
Lower ==
    /\ low.status = "running" /\ low.calls < MaxLower
    /\ \E src \in DOMAIN ExprOf(low.name).xl :
          LET r == compile_instruction(ExprOf(low.name), src, low.memo)
              again == src \in DOMAIN low.first
          IN  low' = [low EXCEPT
                        !.memo = r.memo,
                        !.calls = @ + 1,
                        !.status = IF r.tag = "Panic" THEN "panic" ELSE "running",
                        !.last = [src |-> src, again |-> again, ret |-> Returned(r),
                                  was |-> IF again THEN low.first[src] ELSE NoResult],
                        !.first = IF again THEN @ ELSE MapInsert(@, src, Returned(r))]
    /\ UNCHANGED <<sim, twin, hist>>

InitLower ==
    /\ low \in {LowInit(E) : E \in Exprs}
    /\ sim = NoTwin
    /\ twin = NoTwin
    /\ hist = NoTwin

NextLower == Lower

SpecLower == InitLower /\ [][NextLower]_vars

\* the last call lowered a source id again whose first lowering returned an
\* instruction
LoweredAgain ==
    /\ low.last.again
    /\ low.last.was.tag = "Some" /\ low.last.was.op.t # "NoOp"

\* C10 as stated: lowering a source id a second time on the same memo returns
\* NoOp together with the canonical id the first lowering returned.
C10_MemoIdempotent ==
    LoweredAgain =>
        /\ low.last.ret.tag = "Some"
        /\ low.last.ret.op = NoOp
        /\ low.last.ret.id = low.last.was.id

(***************************************************************************)
(* Lowering followed by a run: the root of a term is lowered on an empty   *)
(* memo, and the tree it returns is run from empty memories                *)
(***************************************************************************)
\* the terms that are lowered and run, each with its root
Dags ==
    { [E |-> RoundTrip, root |-> 14], [E |-> Shared6, root |-> 5],
      [E |-> Aliased, root |-> 7], [E |-> Pairs, root |-> 6],
      [E |-> BareCall, root |-> 8] }

\* the capacities of the SRAMs of those runs
DagCaps == {2, 3}

InitLowerRun ==
    /\ low \in {[LowInit(d.E) EXCEPT !.last.src = d.root] : d \in Dags}
    /\ sim = NoTwin
    /\ twin = NoTwin
    /\ hist = NoTwin

\* compile_instruction on the root, then JitSim::new and run on its result
LowerRoot ==
    /\ low.status = "running" /\ low.calls = 0
    /\ LET r == compile_instruction(ExprOf(low.name), low.last.src, low.memo)
       IN  /\ low' = [low EXCEPT !.memo = r.memo, !.calls = 1,
                                 !.status = IF r.tag = "Some" THEN "lowered" ELSE "panic",
                                 !.last.ret = Returned(r)]
           /\ \E cap \in DagCaps, kind \in Kinds :
                 sim' = SimInit(Program(low.name, r.op, Caps(cap, cap)), kind)
    /\ hist' = NoHistory(sim')
    /\ UNCHANGED twin

\* the run of a lowered tree is on
Lowered == low.status = "lowered"

NextLowerRun ==
    \/ LowerRoot
    \/ Lowered /\ RunNoOp(sim, sim') /\ Remember /\ UNCHANGED <<twin, low>>
    \/ Lowered /\ RunSubop(sim, sim') /\ Remember /\ UNCHANGED <<twin, low>>
    \/ Lowered /\ PerformHostCompute(sim, sim') /\ Remember /\ UNCHANGED <<twin, low>>
    \/ Lowered /\ PerformCompute(sim, sim') /\ Remember /\ UNCHANGED <<twin, low>>
    \/ Lowered /\ ComputeArg(sim, sim') /\ Remember /\ UNCHANGED <<twin, low>>
    \/ Lowered /\ ComputeAllocate(sim, sim') /\ Remember /\ UNCHANGED <<twin, low>>
    \/ Lowered /\ ComputeExec(sim, sim') /\ Remember /\ UNCHANGED <<twin, low>>
    \/ Lowered /\ PerformLoad(sim, sim') /\ Remember /\ UNCHANGED <<twin, low>>
    \/ Lowered /\ LoadExec(sim, sim') /\ Remember /\ UNCHANGED <<twin, low>>
    \/ Lowered /\ PerformStore(sim, sim') /\ Remember /\ UNCHANGED <<twin, low>>
    \/ Lowered /\ RematPut(sim, sim') /\ Remember /\ UNCHANGED <<twin, low>>
    \/ Lowered /\ EvictSingle(sim, sim') /\ Remember /\ UNCHANGED <<twin, low>>

SpecLowerRun == InitLowerRun /\ [][NextLowerRun]_vars

(***************************************************************************)
(* Properties of the lowering                                              *)
(***************************************************************************)
\* C11: in every memo state a client reaches, lowering a source id whose node
\* is an Access, an AccessInsertAxis or an AccessBroadcast returns exactly
\* what lowering the node's first child on that memo returns (the same
\* operator and canonical id, or None, and the same memo), and the memo it
\* leaves has no entry for the pass-through node.
C11_PassThrough ==
    LET E == ExprOf(low.name)
    IN  \A src \in DOMAIN E.xl :
            LET cur == E.xl[src]
                node == E.nodes[cur]
            IN  node.kind \in {"Access", "AccessInsertAxis", "AccessBroadcast"} =>
                    LET r == compile_instruction(E, src, low.memo)
                        c == compile_instruction(E, node.ch[1], low.memo)
                    IN  /\ r = c
                        /\ cur \notin DOMAIN r.memo

\* the last call lowered a pass-through node and returned the instruction of
\* its child
C11_Witness ==
    /\ low.last.src # None
    /\ LET E == ExprOf(low.name)
           cur == E.xl[low.last.src]
       IN  /\ E.nodes[cur].kind \in {"AccessInsertAxis", "AccessBroadcast", "Access"}
           /\ low.last.ret.tag = "Some" /\ low.last.ret.op.t # "NoOp"
           /\ low.last.ret.id # cur
           /\ cur \notin DOMAIN low.memo

\* the ids that appear in an Operators tree
RECURSIVE IdsOf(_)
IdsOf(op) ==
    IF op.t = "NoOp" THEN {}
    ELSE (IF op.t = "Compute" THEN {op.op, op.id} ELSE {op.id})
         \cup Range(op.args)
         \cup UNION {IdsOf(op.subs[j]) : j \in DOMAIN op.subs}

\* a canonical id: the translation of a source id, which the translation
\* leaves as it is
Canonical(E, x) == x \in DOMAIN E.xl /\ E.xl[x] = x

\* C12 as stated: every id in a tree that lowering returns (op_id, dst_id,
\* argument, load and store ids), and the id returned with it, is canonical.
C12_AllCanonical ==
    low.last.ret.tag = "Some" =>
        \A x \in IdsOf(low.last.ret.op) \cup {low.last.ret.id} :
            Canonical(ExprOf(low.name), x)

\* the ids a tree labels as outputs: of its Computes, Loads and Stores
RECURSIVE Labels(_)
Labels(op) ==
    IF op.t = "NoOp" THEN {}
    ELSE {op.id} \cup UNION {Labels(op.subs[j]) : j \in DOMAIN op.subs}

\* C21 as stated: in the run of a lowered tree, when perform_op is called on
\* an instruction (a host Load, which has no operand, aside) each of its
\* operand ids is labelled by an instruction below it or is in DRAM; and the run never fails the host Compute's check of its
\* arguments in DRAM nor rematerialize's lookup of a size in DRAM.
C21_OperandsAvailable ==
    [][Lowered =>
          /\ (AtRun(sim) /\ Top(sim).ops.t # "NoOp"
              /\ ~(Top(sim).ops.t = "Load" /\ Top(sim).ops.region = "host")
              /\ Top(sim).i > Len(Top(sim).ops.subs))
             => \A x \in Range(Top(sim).ops.args) :
                    \/ contains(sim.dram, x)
                    \/ \E j \in DOMAIN Top(sim).ops.subs : x \in Labels(Top(sim).ops.subs[j])
          /\ sim'.status = "panic"
             => sim'.panic \notin {"assert: argument not in DRAM",
                                   "get: no resident has id"}]_vars

\* C22 as stated: a lowering of an AccessPair node, the first or a repeated
\* one, returns None when neither child emits anything; and the first
\* lowering of a pair with a child that emits returns, with the pair's
\* canonical id, a host Compute labelled with that id whose operands are the
\* children that emitted, car before cdr.
C22_AccessPair ==
    [][LET E == ExprOf(low.name)
           cur == E.xl[low'.last.src]
           node == E.nodes[cur]
       IN  (low'.calls = low.calls + 1 /\ node.kind = "AccessPair") =>
             LET car == compile_instruction(E, node.ch[1], low.memo)
                 cdr == compile_instruction(E, node.ch[2], car.memo)
                 ids == (IF car.tag = "Some" THEN <<car.id>> ELSE <<>>)
                        \o (IF cdr.tag = "Some" THEN <<cdr.id>> ELSE <<>>)
                 ops == (IF car.tag = "Some" THEN <<car.op>> ELSE <<>>)
                        \o (IF cdr.tag = "Some" THEN <<cdr.op>> ELSE <<>>)
             IN  (car.tag # "Panic" /\ cdr.tag # "Panic") =>
                   IF ids = <<>>
                   THEN low'.last.ret.tag = "None"
                   ELSE cur \notin DOMAIN low.memo =>
                          low'.last.ret = [tag |-> "Some", id |-> cur,
                                           op |-> Compute("host", cur, cur, ids, ops, 1)]]_vars

====
